---------------------------- MODULE Spec2Model ----------------------------
(***************************************************************************)
(* A model of the Solana data aggregator: the record store of db.rs (the   *)
(* in-memory map, its append-only backing file and the reload), the query  *)
(* handler of api.rs (date filter and pagination), the ingestion pipeline  *)
(* of aggregator.rs (epoch threshold, deadline) and the tasks of main.rs.  *)
(*                                                                         *)
(* Four specifications share the variables:                                *)
(*   SpecLoad   load_from_file on a backing file of any content;           *)
(*   SpecDb     the store driven through its public methods, as the tests  *)
(*              of db.rs drive it, over process restarts;                  *)
(*   SpecQuery  handle_get_transactions over a populated store;            *)
(*   Spec       the whole program of main.rs.                              *)
(*                                                                         *)
(* Integers are scaled: a machine word has WordBits bits instead of 64 and *)
(* a day has SecondsPerDay seconds instead of 86400, so that the wrapping  *)
(* casts of the code stay inside what TLC can enumerate.                   *)
(***************************************************************************)
EXTENDS Integers, Sequences, FiniteSets, TLC

(***************************************************************************)
(* Bounds of the model.                                                    *)
(***************************************************************************)
WordBits == 4
SecondsPerDay == 4
MaxChronoDay == 1
MaxFileLines == 3
MaxOldLines == 1
MaxAdds == 3
MaxStored == 6
MaxInserts == 2
MaxSigs == 2
RpcSlow == 11

VARIABLES
    transactions,   \* InMemoryDatabase.transactions: key -> sequence of TransactionData
    file,           \* the lines of the backing file at InMemoryDatabase.file_path
    phase,          \* the process: "boot", "running", "stopped"
    last_call,      \* history: the last store method that ran, with its arguments and result
    history,        \* history: every add_transaction call so far, over all runs of the process
    boot_at,        \* history: Len(history) when the running process started
    file0,          \* history: the backing file as the first process found it
    guard,          \* the owner of the tokio Mutex around transactions, or "free"
    q,              \* per request handler: its position in handle_get_transactions and its locals
    fetch,          \* the fetch task: its position in fetch_recent_transactions and its locals
    outcome,        \* what the last call of fetch_recent_transactions returned
    address         \* SOLANA_PUBLIC_KEY, the address main passes to every fetch

vars == <<transactions, file, phase, last_call, history, boot_at, file0, guard, q, fetch,
          outcome, address>>

(***************************************************************************)
(* Machine integers.                                                       *)
(***************************************************************************)
U64Modulus == 2 ^ WordBits
U64Max == U64Modulus - 1
I64Max == (U64Modulus \div 2) - 1
IsU64(n) == n >= 0 /\ n <= U64Max

(***************************************************************************)
(* db.rs: TransactionData and its JSON form.  A line of the file is either *)
(* a JSON object (a sequence of members) or text that is no JSON object.   *)
(***************************************************************************)
Accounts == {"A", "B"}
SignatureStrings == {"s1", "s2", "s3", "s4"}

TransactionData(sig, snd, rcv, amt, ts) ==
    [signature |-> sig, sender |-> snd, receiver |-> rcv, amount |-> amt, timestamp |-> ts]

NoTransaction == TransactionData("", "", "", 0, 0)

StrV(s) == [t |-> "str", s |-> s, n |-> 0]
NumV(n) == [t |-> "num", s |-> "", n |-> n]
Member(name, v) == [name |-> name, value |-> v]
JsonObject(ms) == [kind |-> "object", members |-> ms]
NotJson == [kind |-> "text", members |-> <<>>]

\* serde_json::to_string(&transaction): the fields in declaration order
to_string(tx) ==
    JsonObject(<< Member("signature", StrV(tx.signature)),
                  Member("sender", StrV(tx.sender)),
                  Member("receiver", StrV(tx.receiver)),
                  Member("amount", NumV(tx.amount)),
                  Member("timestamp", NumV(tx.timestamp)) >>)

MembersNamed(line, name) == SelectSeq(line.members, LAMBDA m : m.name = name)

\* a field deserializes when it occurs once with the declared type (a u64 in range)
FieldOk(line, name, type) ==
    LET ms == MembersNamed(line, name)
    IN  /\ Len(ms) = 1
        /\ ms[1].value.t = type
        /\ (type = "num" => IsU64(ms[1].value.n))

\* serde_json::from_str::<TransactionData>(&line): unknown members are ignored
from_str(line) ==
    IF /\ line.kind = "object"
       /\ FieldOk(line, "signature", "str")
       /\ FieldOk(line, "sender", "str")
       /\ FieldOk(line, "receiver", "str")
       /\ FieldOk(line, "amount", "num")
       /\ FieldOk(line, "timestamp", "num")
    THEN [ok |-> TRUE,
          value |-> TransactionData(MembersNamed(line, "signature")[1].value.s,
                                    MembersNamed(line, "sender")[1].value.s,
                                    MembersNamed(line, "receiver")[1].value.s,
                                    MembersNamed(line, "amount")[1].value.n,
                                    MembersNamed(line, "timestamp")[1].value.n)]
    ELSE [ok |-> FALSE, value |-> NoTransaction]

(***************************************************************************)
(* db.rs: the map operations.                                              *)
(***************************************************************************)
\* transactions.get(pub_key).cloned().unwrap_or_else(Vec::new)
GetOrEmpty(map, pub_key) == IF pub_key \in DOMAIN map THEN map[pub_key] ELSE <<>>

PushFront(map, pub_key, transaction) ==
    [k \in DOMAIN map \cup {pub_key} |->
        IF k = pub_key THEN <<transaction>> \o GetOrEmpty(map, pub_key) ELSE map[k]]

PushOverNewest(map, pub_key, transaction) ==
    [k \in DOMAIN map \cup {pub_key} |->
        IF k # pub_key THEN map[k]
        ELSE IF GetOrEmpty(map, pub_key) = <<>> THEN <<transaction>>
        ELSE [GetOrEmpty(map, pub_key) EXCEPT ![Len(GetOrEmpty(map, pub_key))] = transaction]]

PushUnlessKnown(map, pub_key, transaction) ==
    [k \in DOMAIN map \cup {pub_key} |->
        IF k # pub_key THEN map[k]
        ELSE IF \E i \in 1..Len(GetOrEmpty(map, pub_key)) :
                   GetOrEmpty(map, pub_key)[i].signature = transaction.signature
        THEN GetOrEmpty(map, pub_key)
        ELSE Append(GetOrEmpty(map, pub_key), transaction)]

PushDropsOlder(map, pub_key, transaction) ==
    [k \in DOMAIN map \cup {pub_key} |->
        IF k = pub_key THEN <<transaction>> ELSE map[k]]

PushToEveryKey(map, pub_key, transaction) ==
    [k \in DOMAIN map \cup {pub_key} |-> Append(GetOrEmpty(map, k), transaction)]

\* transactions.entry(pub_key).or_insert_with(Vec::new).push(transaction)
Push(map, pub_key, transaction) ==
    [k \in DOMAIN map \cup {pub_key} |->
        IF k = pub_key THEN Append(GetOrEmpty(map, pub_key), transaction) ELSE map[k]]

AppendLineLost(lines, transaction) == lines

AppendLineTruncates(lines, transaction) == <<to_string(transaction)>>

\* OpenOptions::new().create(true).append(true), then
\* writeln!(file, "{}", serde_json::to_string(&transaction))
AppendLine(lines, transaction) == Append(lines, to_string(transaction))

\* the body of the loop of load_from_file for one line
LoadLine(map, line) ==
    IF from_str(line).ok
    THEN Push(map, from_str(line).value.sender, from_str(line).value)
    ELSE map

RECURSIVE LoadLinesStopAtCorrupt(_, _)
LoadLinesStopAtCorrupt(map, lines) ==
    IF lines = <<>> \/ ~from_str(Head(lines)).ok THEN map
    ELSE LoadLinesStopAtCorrupt(LoadLine(map, Head(lines)), Tail(lines))

RECURSIVE LoadLines(_, _)
\* load_from_file: the loop over reader.lines()
LoadLines(map, lines) ==
    IF lines = <<>> THEN map
    ELSE LoadLines(LoadLine(map, Head(lines)), Tail(lines))

\* InMemoryDatabase::get_transactions
get_transactions(map, pub_key) == GetOrEmpty(map, pub_key)

EmptyMap == [k \in {} |-> <<>>]
NoCall == [name |-> "none", pub_key |-> "", transaction |-> NoTransaction, result |-> <<>>]
Call(name, pub_key, transaction, result) ==
    [name |-> name, pub_key |-> pub_key, transaction |-> transaction, result |-> result]

(***************************************************************************)
(* api.rs: the query parameters, the date filter and the pagination.       *)
(* A NaiveDate is the number of its day, day 0 being 1970-01-01; chrono    *)
(* represents the days -MaxChronoDay..MaxChronoDay.  The text of the day   *)
(* parameter is kept as what decides its parse: whether it has the form    *)
(* dd/mm/yyyy of a date of the calendar, and which date.                   *)
(***************************************************************************)
None == [some |-> FALSE, v |-> 0]
Some(x) == [some |-> TRUE, v |-> x]
NoDay == [some |-> FALSE, v |-> [wellformed |-> FALSE, date |-> 0]]
DayText(wellformed, date) == [some |-> TRUE, v |-> [wellformed |-> wellformed, date |-> date]]
NaiveDates == (-MaxChronoDay)..MaxChronoDay
DefaultLimit == 5
DefaultOffset == 0

TransactionQueryParams(pub_key, day, limit, offset) ==
    [pub_key |-> pub_key, day |-> day, limit |-> limit, offset |-> offset]

parse_dateAcceptsAll(date_str) == [ok |-> TRUE, value |-> date_str.date]

\* NaiveDate::parse_from_str(date_str, "%d/%m/%Y")
parse_date(date_str) ==
    IF date_str.wellformed /\ date_str.date \in NaiveDates
    THEN [ok |-> TRUE, value |-> date_str.date]
    ELSE [ok |-> FALSE, value |-> 0]

\* timestamp as i64
AsI64(u) == IF u > I64Max THEN u - U64Modulus ELSE u

\* Utc.timestamp_opt(secs, 0).single(): None outside the dates chrono represents
timestamp_opt(secs) ==
    IF (secs \div SecondsPerDay) \in NaiveDates
    THEN Some(secs \div SecondsPerDay)
    ELSE None

is_same_day(timestamp, date) ==
    LET datetime == timestamp_opt(AsI64(timestamp))
    IN  IF datetime.some THEN datetime.v = date ELSE FALSE

RECURSIVE skip(_, _)
\* Iterator::skip
skip(s, n) == IF n = 0 \/ s = <<>> THEN s ELSE skip(Tail(s), n - 1)

RECURSIVE take(_, _)
\* Iterator::take
take(s, n) == IF n = 0 \/ s = <<>> THEN <<>> ELSE <<Head(s)>> \o take(Tail(s), n - 1)

unwrap_or(opt, default) == IF opt.some THEN opt.v ELSE default

PaginateTakeThenSkip(filtered_transactions, params) ==
    skip(take(filtered_transactions, unwrap_or(params.limit, DefaultLimit)),
         unwrap_or(params.offset, DefaultOffset))

\* filtered_transactions.into_iter().skip(offset).take(limit).collect()
Paginate(filtered_transactions, params) ==
    take(skip(filtered_transactions, unwrap_or(params.offset, DefaultOffset)),
         unwrap_or(params.limit, DefaultLimit))

\* transactions.into_iter().filter(|tx| is_same_day(tx.timestamp, date_filter)).collect()
FilterByDay(snapshot, date_filter) ==
    SelectSeq(snapshot, LAMBDA tx : is_same_day(tx.timestamp, date_filter))

Reply(status, error, body) == [status |-> status, error |-> error, body |-> body]
NoReply == Reply(0, "", <<>>)
RequestTimeout == Reply(408, "Request timed out", <<>>)
BadRequest == Reply(400, "Invalid date format", <<>>)

\* handle_get_transactions after db.get_transactions returned: the local
\* filtered_transactions and the reply
Filtered(snapshot, params) ==
    IF params.day.some
    THEN IF parse_date(params.day.v).ok
         THEN [ok |-> TRUE, value |-> FilterByDay(snapshot, parse_date(params.day.v).value)]
         ELSE [ok |-> FALSE, value |-> <<>>]
    ELSE [ok |-> TRUE, value |-> snapshot]

Respond(snapshot, params) ==
    IF Filtered(snapshot, params).ok
    THEN Reply(200, "", Paginate(Filtered(snapshot, params).value, params))
    ELSE BadRequest

(***************************************************************************)
(* The tasks.  A request handler is at "idle", "lock" (awaiting the guard  *)
(* in get_transactions), "locked" (holding it), "filter" (the snapshot is  *)
(* taken and the guard dropped) or "done" (the reply is made).             *)
(***************************************************************************)
Handlers == {"q1", "q2"}
NoParams == TransactionQueryParams("", NoDay, None, None)
Handler(pc, params, snapshot, filtered, reply) ==
    [pc |-> pc, params |-> params, snapshot |-> snapshot, filtered |-> filtered, reply |-> reply]
IdleHandler == Handler("idle", NoParams, <<>>, <<>>, NoReply)
\* the locals of fetch_recent_transactions: epoch_start_time, the rest of signatures,
\* the vector transactions, the record handed to add_transaction; elapsed is the time
\* since timeout() was entered and calls the remote calls of this cycle (history)
Fetch(pc, epoch_start_time, signatures, acc, pending, elapsed, calls) ==
    [pc |-> pc, epoch_start_time |-> epoch_start_time, signatures |-> signatures,
     transactions |-> acc, pending |-> pending, elapsed |-> elapsed, calls |-> calls]
IdleFetch == Fetch("off", 0, <<>>, <<>>, NoTransaction, 0, {})
\* Result<Vec<TransactionData>, AggregatorError>; took is the time the timed block ran
Outcome(kind, returned, took) == [kind |-> kind, returned |-> returned, took |-> took]
NoOutcome == Outcome("none", <<>>, 0)

TasksIdle ==
    /\ guard = "free"
    /\ q = [h \in Handlers |-> IdleHandler]
    /\ fetch = IdleFetch
    /\ outcome = NoOutcome

\* warp hands a request to handle_get_transactions
Receive(h, params) ==
    /\ phase = "running"
    /\ q[h].pc = "idle"
    /\ q' = [q EXCEPT ![h] = Handler("lock", params, <<>>, <<>>, NoReply)]
    /\ UNCHANGED <<transactions, file, phase, last_call, history, boot_at, file0, guard,
                   fetch, outcome, address>>

\* a lock() that is granted whoever holds the guard
QueryLockUnguarded(h) ==
    /\ phase \in {"running", "stopping"}
    /\ q[h].pc = "lock"
    /\ guard' = h
    /\ q' = [q EXCEPT ![h].pc = "locked"]
    /\ UNCHANGED <<transactions, file, phase, last_call, history, boot_at, file0, fetch,
                   outcome, address>>

\* get_transactions: self.transactions.lock().await
QueryLock(h) ==
    /\ phase \in {"running", "stopping"}
    /\ q[h].pc = "lock"
    /\ guard = "free"
    /\ guard' = h
    /\ q' = [q EXCEPT ![h].pc = "locked"]
    /\ UNCHANGED <<transactions, file, phase, last_call, history, boot_at, file0, fetch,
                   outcome, address>>

\* a get_transactions that returns the guard with the vector
QuerySnapshotKeepsGuard(h) ==
    /\ phase \in {"running", "stopping"}
    /\ q[h].pc = "locked"
    /\ guard = h
    /\ q' = [q EXCEPT ![h].pc = "filter",
                      ![h].snapshot = get_transactions(transactions, q[h].params.pub_key)]
    /\ UNCHANGED <<transactions, file, phase, last_call, history, boot_at, file0, fetch,
                   outcome, address, guard>>

\* get_transactions: the clone of the vector, and the guard dropped on return
QuerySnapshot(h) ==
    /\ phase \in {"running", "stopping"}
    /\ q[h].pc = "locked"
    /\ guard = h
    /\ guard' = "free"
    /\ q' = [q EXCEPT ![h].pc = "filter",
                      ![h].snapshot = get_transactions(transactions, q[h].params.pub_key)]
    /\ UNCHANGED <<transactions, file, phase, last_call, history, boot_at, file0, fetch,
                   outcome, address>>

\* handle_get_transactions: the date filter, the pagination and the reply
QueryRespond(h) ==
    /\ phase \in {"running", "stopping"}
    /\ q[h].pc = "filter"
    /\ q' = [q EXCEPT ![h].pc = "done",
                      ![h].filtered = Filtered(q[h].snapshot, q[h].params).value,
                      ![h].reply = Respond(q[h].snapshot, q[h].params)]
    /\ UNCHANGED <<transactions, file, phase, last_call, history, boot_at, file0, guard,
                   fetch, outcome, address>>

\* the reply is sent and the handler's future is dropped
QueryFinish(h) ==
    /\ phase \in {"running", "stopping"}
    /\ q[h].pc = "done"
    /\ q' = [q EXCEPT ![h] = IdleHandler]
    /\ UNCHANGED <<transactions, file, phase, last_call, history, boot_at, file0, guard,
                   fetch, outcome, address>>

(***************************************************************************)
(* SpecDb: one caller drives the store through its public methods, the way *)
(* main.rs and the tests of db.rs do: the store is created empty, loaded   *)
(* once from the file, then written and read; the process ends and a new   *)
(* one starts on the file the old one left.  A backing file that does not  *)
(* exist reads as the empty sequence of lines.                             *)
(* SpecLoad: the start of a process on a backing file of any content.      *)
(***************************************************************************)
TxA1 == TransactionData("s1", "A", "B", 1, 1)
TxB1 == TransactionData("s2", "B", "A", U64Max, U64Max)
SampleTransactions == {TxA1, TxB1}

\* lines that deserialize: the two records as add_transaction writes them, and one
\* written by another tool (members in another order, an unknown member)
ForeignLine ==
    JsonObject(<< Member("slot", NumV(7)),
                  Member("timestamp", NumV(3)),
                  Member("amount", NumV(2)),
                  Member("receiver", StrV("A")),
                  Member("sender", StrV("B")),
                  Member("signature", StrV("s2")) >>)
\* lines that do not: no JSON, a missing field, a number outside u64, a repeated field
MissingFieldLine == JsonObject(SubSeq(to_string(TxA1).members, 1, 4))
OutOfRangeLine ==
    JsonObject(<< Member("signature", StrV("s1")), Member("sender", StrV("A")),
                  Member("receiver", StrV("B")), Member("amount", NumV(U64Modulus)),
                  Member("timestamp", NumV(1)) >>)
WrongTypeLine ==
    JsonObject(<< Member("signature", StrV("s1")), Member("sender", StrV("A")),
                  Member("receiver", StrV("B")), Member("amount", StrV("1")),
                  Member("timestamp", NumV(1)) >>)
RepeatedFieldLine == JsonObject(Append(to_string(TxB1).members, Member("sender", StrV("A"))))
ValidSampleLines == {to_string(TxA1), to_string(TxB1), ForeignLine}
CorruptSampleLines ==
    {NotJson, MissingFieldLine, OutOfRangeLine, WrongTypeLine, RepeatedFieldLine}
SampleLines == ValidSampleLines \cup CorruptSampleLines

SeqsUpTo(S, n) == UNION {[1..m -> S] : m \in 0..n}

\* what earlier runs left in the file when the first process of SpecDb starts
OldLines == {to_string(TxB1), ForeignLine, NotJson}

InitDb ==
    /\ TasksIdle
    /\ address = "A"
    /\ transactions = EmptyMap
    /\ file \in SeqsUpTo(OldLines, MaxOldLines)
    /\ file0 = file
    /\ phase = "boot"
    /\ last_call = NoCall
    /\ history = <<>>
    /\ boot_at = 0

\* InMemoryDatabase::load_from_file, called once after InMemoryDatabase::new
DbLoadFromFile ==
    /\ phase = "boot"
    /\ transactions' = LoadLines(transactions, file)
    /\ phase' = "running"
    /\ last_call' = Call("load_from_file", "", NoTransaction, <<>>)
    /\ UNCHANGED <<file, history, boot_at, file0, guard, q, fetch, outcome, address>>

\* InMemoryDatabase::add_transaction; io_ok = FALSE: the file cannot be opened or
\* written, and expect() panics after the push
DbAddTransaction(pub_key, transaction, io_ok) ==
    /\ phase = "running"
    /\ Len(history) < MaxAdds
    /\ transactions' = Push(transactions, pub_key, transaction)
    /\ file' = IF io_ok THEN AppendLine(file, transaction) ELSE file
    /\ phase' = IF io_ok THEN "running" ELSE "stopped"
    /\ last_call' = Call(IF io_ok THEN "add_transaction" ELSE "panic", pub_key, transaction, <<>>)
    /\ history' = Append(history, [pub_key |-> pub_key, transaction |-> transaction,
                                   persisted |-> io_ok])
    /\ UNCHANGED <<boot_at, file0, guard, q, fetch, outcome, address>>

DbGetTransactions(pub_key) ==
    /\ phase = "running"
    /\ last_call' = Call("get_transactions", pub_key, NoTransaction,
                         get_transactions(transactions, pub_key))
    /\ UNCHANGED <<transactions, file, phase, history, boot_at, file0, guard, q, fetch, outcome, address>>

\* the process ends: the map is dropped, the file stays
DbExit ==
    /\ phase = "running"
    /\ phase' = "stopped"
    /\ last_call' = NoCall
    /\ UNCHANGED <<transactions, file, history, boot_at, file0, guard, q, fetch, outcome, address>>

\* a new process: InMemoryDatabase::new on the same file_path
DbRestart ==
    /\ phase = "stopped"
    /\ transactions' = EmptyMap
    /\ phase' = "boot"
    /\ boot_at' = Len(history)
    /\ last_call' = NoCall
    /\ UNCHANGED <<file, history, file0, guard, q, fetch, outcome, address>>

NextDb ==
    \/ DbLoadFromFile
    \/ \E k \in Accounts, tx \in SampleTransactions, io_ok \in BOOLEAN :
          DbAddTransaction(k, tx, io_ok)
    \/ \E k \in Accounts : DbGetTransactions(k)
    \/ DbExit
    \/ DbRestart

SpecDb == InitDb /\ [][NextDb]_vars

InitLoad ==
    /\ TasksIdle
    /\ address = "A"
    /\ transactions = EmptyMap
    /\ file \in SeqsUpTo(SampleLines, MaxFileLines)
    /\ file0 = file
    /\ phase = "boot"
    /\ last_call = NoCall
    /\ history = <<>>
    /\ boot_at = 0

NextLoad ==
    \/ DbLoadFromFile
    \/ \E k \in Accounts : DbGetTransactions(k)

SpecLoad == InitLoad /\ [][NextLoad]_vars

(***************************************************************************)
(* Claims about the store (SpecDb).                                        *)
(***************************************************************************)
\* the records of the lines that deserialize, in file order
ValidRecords(lines) ==
    LET good == SelectSeq(lines, LAMBDA l : from_str(l).ok)
    IN  [i \in 1..Len(good) |-> from_str(good[i]).value]

RECURSIVE TotalRecords(_)
TotalRecords(map) ==
    IF DOMAIN map = {} THEN 0
    ELSE LET k == CHOOSE x \in DOMAIN map : TRUE
         IN  Len(map[k]) + TotalRecords([j \in DOMAIN map \ {k} |-> map[j]])

WithSender(records, k) == SelectSeq(records, LAMBDA r : r.sender = k)
LastAdd == history[Len(history)]
\* the records add_transaction wrote to the file before the running process started
PersistedBeforeBoot ==
    LET old == SelectSeq(SubSeq(history, 1, boot_at), LAMBDA h : h.persisted)
    IN  [i \in 1..Len(old) |-> old[i].transaction]
\* the records this process inserted under key k
InsertedThisRun(k) ==
    LET new == SelectSeq(SubSeq(history, boot_at + 1, Len(history)),
                         LAMBDA h : h.pub_key = k)
    IN  [i \in 1..Len(new) |-> new[i].transaction]

\* C1: right after add_transaction(key, record) completes, get_transactions(key) is the
\* sequence that was stored under key before the call, followed by that record.
C1_InsertAppendsLast ==
    [][(Len(history') > Len(history) /\ last_call'.name = "add_transaction") =>
          get_transactions(transactions', history'[Len(history')].pub_key)
            = Append(get_transactions(transactions, history'[Len(history')].pub_key),
                     history'[Len(history')].transaction)]_vars

C1_Witness ==
    /\ last_call.name = "add_transaction"
    /\ Len(get_transactions(transactions, LastAdd.pub_key)) >= 2
    /\ get_transactions(transactions, LastAdd.pub_key)[1] # LastAdd.transaction

\* C2: add_transaction(k, r) leaves the sequence of every other key unchanged; what is
\* stored under a key was reloaded with that sender or inserted under that key, and
\* get_transactions of a key never used returns the empty sequence.
C2_OtherKeysUntouched ==
    /\ [][Len(history') > Len(history) =>
             \A k \in Accounts \ {history'[Len(history')].pub_key} :
                 get_transactions(transactions', k) = get_transactions(transactions, k)]_vars
    /\ [](phase = "running" =>
             \A k \in Accounts :
                 LET stored == get_transactions(transactions, k)
                     loaded == WithSender(ValidRecords(file0) \o PersistedBeforeBoot, k)
                 IN  /\ \A i \in 1..Len(stored) :
                            \/ \E j \in 1..Len(loaded) : loaded[j] = stored[i]
                            \/ \E j \in 1..Len(InsertedThisRun(k)) :
                                   InsertedThisRun(k)[j] = stored[i]
                     /\ (loaded = <<>> /\ InsertedThisRun(k) = <<>> => stored = <<>>)
                     /\ (last_call.name = "get_transactions" /\ last_call.pub_key = k
                            => last_call.result = stored))

C2_Witness ==
    /\ last_call.name = "get_transactions"
    /\ last_call.result = <<>>
    /\ \E k \in Accounts \ {last_call.pub_key} : Len(InsertedThisRun(k)) >= 1

\* C3: load_from_file on the empty store adds exactly the N records of the lines that
\* deserialize, each under its own sender, in file order; corrupt lines are skipped
\* and do not stop the load.
C3_LoadKeepsValidLines ==
    last_call.name = "load_from_file" =>
        /\ TotalRecords(transactions) = Len(ValidRecords(file))
        /\ DOMAIN transactions =
               {ValidRecords(file)[i].sender : i \in 1..Len(ValidRecords(file))}
        /\ \A k \in DOMAIN transactions :
               transactions[k] = WithSender(ValidRecords(file), k)

C3_Witness ==
    /\ last_call.name = "load_from_file"
    /\ \E i, j \in 1..Len(file) :
          i < j /\ ~from_str(file[i]).ok /\ from_str(file[j]).ok
    /\ \E k \in DOMAIN transactions : Len(transactions[k]) >= 2

\* C4: after a restart and one reload the map holds every record ever appended to the
\* file, under its own sender, followed by what this process inserted, under the key
\* of the insert; nothing is lost and nothing is deduplicated.
C4_ReloadKeepsEveryAppend ==
    phase = "running" =>
        \A k \in Accounts :
            get_transactions(transactions, k)
              = WithSender(ValidRecords(file0) \o PersistedBeforeBoot, k) \o InsertedThisRun(k)

C4_Witness ==
    /\ phase = "running"
    /\ boot_at >= 1
    /\ Len(history) > boot_at
    /\ history[1].persisted
    /\ history[1].pub_key # history[1].transaction.sender
    /\ Len(get_transactions(transactions, history[1].transaction.sender)) >= 2

(***************************************************************************)
(* SpecQuery: one request at a time against a store that load_from_file    *)
(* filled from a backing file of records of sender "A".                    *)
(***************************************************************************)
\* a record of day 0, one whose timestamp exceeds i64::MAX by one, and one of u64::MAX
QueryRecords ==
    {TransactionData("s1", "A", "B", 1, 1),
     TransactionData("s2", "A", "B", 1, I64Max + 1),
     TransactionData("s2", "A", "B", 2, U64Max)}
QueryLines == {to_string(tx) : tx \in QueryRecords}
\* day: absent, two dates, a date chrono cannot represent, and text of another form
QueryDays ==
    {NoDay, DayText(TRUE, -1), DayText(TRUE, 0), DayText(TRUE, MaxChronoDay + 1),
     DayText(FALSE, 0)}
QueryLimits == {None, Some(0), Some(2)}
QueryOffsets == {None, Some(1), Some(9)}
QueryParams ==
    {TransactionQueryParams(k, d, l, o) :
        k \in {"A"}, d \in QueryDays, l \in QueryLimits, o \in QueryOffsets}

InitQuery ==
    /\ TasksIdle
    /\ address = "A"
    /\ file \in SeqsUpTo(QueryLines, MaxStored)
    /\ file0 = file
    /\ transactions = LoadLines(EmptyMap, file)
    /\ phase = "running"
    /\ last_call = NoCall
    /\ history = <<>>
    /\ boot_at = 0

NextQuery ==
    \/ \E params \in QueryParams : Receive("q1", params)
    \/ QueryLock("q1")
    \/ QuerySnapshot("q1")
    \/ QueryRespond("q1")
    \/ QueryFinish("q1")

SpecQuery == InitQuery /\ [][NextQuery]_vars

(***************************************************************************)
(* Claims about the query handler (SpecQuery).                             *)
(***************************************************************************)
Min(a, b) == IF a < b THEN a ELSE b
Max(a, b) == IF a > b THEN a ELSE b
Answered(h) == q[h].pc = "done"

\* C5: a reply of 200 holds min(max(L - o, 0), l) records, the slice [o : o + l] of the
\* filtered sequence of length L in its order, with l = 5 and o = 0 when absent.
C5_PaginationLaw ==
    \A h \in Handlers :
        (Answered(h) /\ q[h].reply.status = 200) =>
            LET F == q[h].filtered
                l == IF q[h].params.limit.some THEN q[h].params.limit.v ELSE 5
                o == IF q[h].params.offset.some THEN q[h].params.offset.v ELSE 0
            IN  /\ Len(q[h].reply.body) = Min(Max(Len(F) - o, 0), l)
                /\ q[h].reply.body = SubSeq(F, o + 1, Min(o + l, Len(F)))

C5_Witness ==
    \E h \in Handlers :
        /\ Answered(h)
        /\ q[h].reply.status = 200
        /\ ~q[h].params.limit.some
        /\ q[h].params.offset = Some(1)
        /\ Len(q[h].filtered) = 6
        /\ Len(q[h].reply.body) = 5
        /\ q[h].reply.body[1] # q[h].filtered[1]

\* the day of a timestamp read as Unix seconds
OnDay(timestamp, date) == timestamp \div SecondsPerDay = date

\* C6: with a well-formed day the handler retains exactly the stored records of the key
\* whose timestamp, read as Unix seconds in UTC, falls on that date, in stored order;
\* with no day it retains every stored record.
C6_RetainsExactlyThatDay ==
    \A h \in Handlers :
        (Answered(h) /\ q[h].reply.status = 200) =>
            q[h].filtered =
                IF q[h].params.day.some
                THEN SelectSeq(q[h].snapshot,
                               LAMBDA tx : OnDay(tx.timestamp, q[h].params.day.v.date))
                ELSE q[h].snapshot

\* C7: a day that does not parse as dd/mm/yyyy is answered 400 with the fixed error and
\* no records, whatever limit and offset are, and handling it leaves the map and the
\* backing file as they were.
C7_MalformedDayRejected ==
    /\ [](\A h \in Handlers :
            (/\ Answered(h)
             /\ q[h].params.day.some
             /\ ~(q[h].params.day.v.wellformed /\ q[h].params.day.v.date \in NaiveDates)) =>
                /\ q[h].reply.status = 400
                /\ q[h].reply.error = "Invalid date format"
                /\ q[h].reply.body = <<>>)
    /\ [][q' # q => UNCHANGED <<transactions, file>>]_vars

C7_Witness ==
    \E h \in Handlers :
        /\ Answered(h)
        /\ q[h].params.day = DayText(FALSE, 0)
        /\ q[h].params.limit = Some(2)
        /\ Len(q[h].snapshot) >= 1
        /\ q[h].reply.status = 400

(***************************************************************************)
(* aggregator.rs: the remote ledger's answers and the normalization of one *)
(* transaction.  The RpcClient is the blocking client: a remote call runs  *)
(* to its end inside one poll of the task, however long it takes.          *)
(***************************************************************************)
timeout_duration == 10
AsU64(i) == i % U64Modulus

\* address.parse::<Pubkey>() and signature.parse::<Signature>() succeed on these
IsPubkey(text) == text \in Accounts
IsSignatureAny(text) == TRUE
IsSignature(text) == text \in SignatureStrings
Addresses == {"A", "not-a-pubkey"}
\* get_signatures_for_address: up to MaxSigs identifiers, the i-th being the signature
\* "s<i>" or text that is no signature
SigAt == <<"s1", "s2", "s3", "s4">>
SignatureLists ==
    UNION {{sigs \in [1..n -> SignatureStrings \cup {"not-a-signature"}] :
               \A i \in 1..n : sigs[i] \in {SigAt[i], "not-a-signature"}} : n \in 0..MaxSigs}

\* get_epoch_info and get_block_time: slot_index and the block time of absolute_slot
EpochResponses ==
    {[slot_index |-> 3, current_time |-> 3], [slot_index |-> 0, current_time |-> 3]}

\* (slot_index as f64 * 0.4) as i64, and the subtraction
epoch_start(e) == e.current_time - ((e.slot_index * 2) \div 5)

Meta(pre, post) == [some |-> TRUE, v |-> [pre_balances |-> pre, post_balances |-> post]]
NoMeta == [some |-> FALSE, v |-> [pre_balances |-> <<>>, post_balances |-> <<>>]]
\* Result<EncodedConfirmedTransactionWithStatusMeta, ClientError>
Response(ok, block_time, meta, encoding, message, account_keys) ==
    [ok |-> ok, block_time |-> block_time, meta |-> meta, encoding |-> encoding,
     message |-> message, account_keys |-> account_keys]
Transfer(block_time) ==
    Response(TRUE, block_time, Meta(<<5, 1>>, <<4, 3>>), "json", "parsed", <<"A", "B">>)
RpcError == Response(FALSE, None, NoMeta, "json", "parsed", <<>>)
\* the answers of get_transaction: an error, no block time, block times below and at
\* the epoch start, no meta, a binary encoding, one balance only, and a raw message
\* with one account key whose second balance decreases
TxResponses ==
    {RpcError,
     Transfer(None), Transfer(Some(-1)), Transfer(Some(2)),
     Response(TRUE, Some(2), NoMeta, "json", "parsed", <<"A", "B">>),
     Response(TRUE, Some(2), Meta(<<5, 1>>, <<4, 3>>), "binary", "parsed", <<"A", "B">>),
     Response(TRUE, Some(2), Meta(<<5>>, <<4>>), "json", "parsed", <<"A", "B">>),
     Response(TRUE, Some(3), Meta(<<5, 3>>, <<4, 1>>), "json", "raw", <<"B">>)}

\* how long a remote call blocks the task
RpcSeconds == {0, RpcSlow}
\* the clock of the model stops at MaxClock, past the deadline
MaxClock == timeout_duration + 1
Later(elapsed, d) == IF elapsed + d > MaxClock THEN MaxClock ELSE elapsed + d

\* account_keys.get(i).map_or("unknown".to_string(), ..), for both forms of the message
account_key(resp, i) ==
    IF resp.message \in {"parsed", "raw"} /\ i + 1 <= Len(resp.account_keys)
    THEN resp.account_keys[i + 1]
    ELSE "unknown"

InCurrentEpochStrictlyAfter(block_time, epoch_start_time) == block_time > epoch_start_time

\* block_time >= epoch_start_time
InCurrentEpoch(block_time, epoch_start_time) == block_time >= epoch_start_time

SkipEndsTask == [kind |-> "panic", tx |-> NoTransaction]
SkipAsDefaultRecord == [kind |-> "record", tx |-> NoTransaction]
Skipped == [kind |-> "skip", tx |-> NoTransaction]
Panicked == [kind |-> "panic", tx |-> NoTransaction]
Accepted(tx) == [kind |-> "record", tx |-> tx]

\* the body of the loop from get_transaction to the TransactionData, as the set of
\* its outcomes: post_balances[1] - pre_balances[1] below zero panics in a build with
\* overflow checks (debug) and wraps in one without (release)
Normalize(signature, resp, epoch_start_time) ==
    IF ~resp.ok THEN {Skipped}
    ELSE IF ~resp.block_time.some THEN {Skipped}
    ELSE IF ~InCurrentEpoch(resp.block_time.v, epoch_start_time) THEN {Skipped}
    ELSE IF ~resp.meta.some THEN {Skipped}
    ELSE IF resp.encoding # "json" THEN {Skipped}
    ELSE IF Len(resp.meta.v.post_balances) < 2 \/ Len(resp.meta.v.pre_balances) < 2
         THEN {Panicked}
    ELSE {Accepted(TransactionData(
              signature, account_key(resp, 0), account_key(resp, 1),
              (resp.meta.v.post_balances[2] - resp.meta.v.pre_balances[2]) % U64Modulus,
              AsU64(resp.block_time.v)))}
         \cup (IF resp.meta.v.post_balances[2] < resp.meta.v.pre_balances[2]
               THEN {Panicked} ELSE {})

ElapsedKeepsPartial(acc, took) == Outcome("Elapsed", acc, took)

\* timeout(..).await? when the deadline fires: the future and its vector are dropped
Elapsed(acc, took) == Outcome("Elapsed", <<>>, took)

\* where the task goes when it has to wait: a task aborted by ctrl-c ends there
Suspend(pc) == IF phase = "stopping" THEN "aborted" ELSE pc
Alive == phase \in {"running", "stopping"}
\* the task at pc: once the call has returned, failed, panicked or been aborted its
\* locals are gone; the vector, the threshold and the calls made are kept as the
\* record of the cycle until the next one begins
At(f, pc) ==
    IF pc \in {"sleep", "panicked", "aborted"}
    THEN [f EXCEPT !.pc = pc, !.signatures = <<>>, !.pending = NoTransaction, !.elapsed = 0]
    ELSE [f EXCEPT !.pc = pc]

(***************************************************************************)
(* The fetch task of main.rs and fetch_recent_transactions.                *)
(***************************************************************************)
\* the loop of a task that goes on only after Ok
FetchBeginAfterOkOnly ==
    /\ phase = "running"
    /\ \/ fetch.pc = "start"
       \/ fetch.pc = "sleep" /\ outcome.kind = "Ok"
    /\ fetch' = Fetch("epoch", 0, <<>>, <<>>, NoTransaction, 0, {})
    /\ outcome' = NoOutcome
    /\ UNCHANGED <<transactions, file, phase, last_call, history, boot_at, file0, guard, q,
                   address>>

\* the loop of the fetch task: aggregator.lock(), then fetch_recent_transactions
FetchBegin ==
    /\ phase = "running"
    /\ fetch.pc \in {"start", "sleep"}
    /\ fetch' = Fetch("epoch", 0, <<>>, <<>>, NoTransaction, 0, {})
    /\ outcome' = NoOutcome
    /\ UNCHANGED <<transactions, file, phase, last_call, history, boot_at, file0, guard, q,
                   address>>

\* get_epoch_start_time: get_epoch_info, then get_block_time; either may fail
GetEpochStartTime ==
    /\ Alive
    /\ fetch.pc = "epoch"
    /\ \/ /\ fetch' = At([fetch EXCEPT !.calls = {"get_epoch_info"}], Suspend("sleep"))
          /\ outcome' = Outcome("FetchTransactionError", <<>>, 0)
       \/ /\ fetch' = At([fetch EXCEPT !.calls = {"get_epoch_info", "get_block_time"}],
                       Suspend("sleep"))
          /\ outcome' = Outcome("FetchTransactionError", <<>>, 0)
       \/ /\ \E e \in EpochResponses :
                fetch' = [fetch EXCEPT !.pc = "timed", !.epoch_start_time = epoch_start(e),
                                       !.calls = {"get_epoch_info", "get_block_time"}]
          /\ UNCHANGED outcome
    /\ UNCHANGED <<transactions, file, phase, last_call, history, boot_at, file0, guard, q,
                   address>>

\* inside timeout(): address.parse(), then get_signatures_for_address
FetchSignatures ==
    /\ Alive
    /\ fetch.pc = "timed"
    /\ \/ /\ ~IsPubkey(address)
          /\ fetch' = At(fetch, Suspend("sleep"))
          /\ outcome' = Outcome("InvalidPublicKey", <<>>, 0)
       \/ /\ IsPubkey(address)
          /\ \E d \in RpcSeconds :
                /\ fetch' = At([fetch EXCEPT
                                   !.calls = @ \cup {"get_signatures_for_address"}],
                               Suspend("sleep"))
                /\ outcome' = Outcome("FetchSignaturesError", <<>>, d)
       \/ /\ IsPubkey(address)
          /\ \E sigs \in SignatureLists, d \in RpcSeconds :
                fetch' = [fetch EXCEPT !.pc = "loop", !.signatures = sigs, !.elapsed = d,
                             !.calls = @ \cup {"get_signatures_for_address"}]
          /\ UNCHANGED outcome
    /\ UNCHANGED <<transactions, file, phase, last_call, history, boot_at, file0, guard, q,
                   address>>

\* one turn of the loop for the response resp, which took d seconds: parse the
\* identifier, get_transaction, normalize, push to the vector and call add_transaction,
\* whose lock().await is granted at once when the guard is free
ProcessSignature(resp, d) ==
    /\ Alive
    /\ fetch.pc = "loop"
    /\ fetch.signatures # <<>>
    /\ IsSignature(Head(fetch.signatures))
    /\ \E n \in Normalize(Head(fetch.signatures), resp, fetch.epoch_start_time) :
          LET now == Later(fetch.elapsed, d)
              called == fetch.calls \cup {"get_transaction"}
          IN  \/ /\ n.kind = "skip"
                 /\ fetch' = [fetch EXCEPT !.signatures = Tail(@), !.elapsed = now,
                                           !.calls = called]
                 /\ UNCHANGED guard
              \/ /\ n.kind = "panic"
                 /\ fetch' = At([fetch EXCEPT !.calls = called], "panicked")
                 /\ UNCHANGED guard
              \/ /\ n.kind = "record"
                 /\ Len(history) < MaxInserts
                 /\ guard = "free"
                 /\ guard' = "fetch"
                 /\ fetch' = [fetch EXCEPT !.pc = "add_locked", !.elapsed = now,
                                 !.calls = called, !.pending = n.tx,
                                 !.transactions = Append(@, n.tx)]
              \/ /\ n.kind = "record"
                 /\ Len(history) < MaxInserts
                 /\ guard # "free"
                 /\ UNCHANGED guard
                 /\ fetch' = At([fetch EXCEPT !.elapsed = now, !.calls = called,
                                    !.pending = n.tx, !.transactions = Append(@, n.tx)],
                                Suspend("add_wait"))
    /\ UNCHANGED <<transactions, file, phase, last_call, history, boot_at, file0, q, outcome,
                   address>>

\* signature_info.signature.parse() fails: the whole call fails
ParseSignatureFails ==
    /\ Alive
    /\ fetch.pc = "loop"
    /\ fetch.signatures # <<>>
    /\ ~IsSignature(Head(fetch.signatures))
    /\ fetch' = At(fetch, Suspend("sleep"))
    /\ outcome' = Outcome("ParseSignatureError", <<>>, fetch.elapsed)
    /\ UNCHANGED <<transactions, file, phase, last_call, history, boot_at, file0, guard, q,
                   address>>

\* the task waits for the guard and time passes
AddWaitTick ==
    /\ phase = "running"
    /\ fetch.pc = "add_wait"
    /\ guard # "free"
    /\ fetch.elapsed < MaxClock
    /\ fetch' = [fetch EXCEPT !.elapsed = Later(@, RpcSlow)]
    /\ UNCHANGED <<transactions, file, phase, last_call, history, boot_at, file0, guard, q,
                   outcome, address>>

\* the waiting task is polled and the guard is its own
AddLockGranted ==
    /\ phase = "running"
    /\ fetch.pc = "add_wait"
    /\ guard = "free"
    /\ guard' = "fetch"
    /\ fetch' = [fetch EXCEPT !.pc = "add_locked"]
    /\ UNCHANGED <<transactions, file, phase, last_call, history, boot_at, file0, q, outcome,
                   address>>

\* the waiting task is polled, the guard is still taken and the deadline has passed:
\* Timeout answers Err(Elapsed)
Timeout ==
    /\ phase = "running"
    /\ fetch.pc = "add_wait"
    /\ guard # "free"
    /\ fetch.elapsed >= timeout_duration
    /\ fetch' = At(fetch, "sleep")
    /\ outcome' = Elapsed(fetch.transactions, fetch.elapsed)
    /\ UNCHANGED <<transactions, file, phase, last_call, history, boot_at, file0, guard, q,
                   address>>

\* add_transaction under the guard: the push, the append to the file, the guard dropped;
\* io_ok = FALSE: expect() panics after the push and the task dies
AddTransactionBody(io_ok) ==
    /\ Alive
    /\ fetch.pc = "add_locked"
    /\ guard = "fetch"
    /\ transactions' = Push(transactions, address, fetch.pending)
    /\ file' = IF io_ok THEN AppendLine(file, fetch.pending) ELSE file
    /\ history' = Append(history, [pub_key |-> address, transaction |-> fetch.pending,
                                   persisted |-> io_ok])
    /\ last_call' = Call(IF io_ok THEN "add_transaction" ELSE "panic", address,
                         fetch.pending, <<>>)
    /\ guard' = "free"
    /\ fetch' = At([fetch EXCEPT !.signatures = Tail(@)],
                   IF io_ok THEN "loop" ELSE "panicked")
    /\ UNCHANGED <<phase, boot_at, file0, q, outcome, address>>

\* the loop is over: Ok(transactions); main logs it and sleeps
FetchDone ==
    /\ Alive
    /\ fetch.pc = "loop"
    /\ fetch.signatures = <<>>
    /\ fetch' = At(fetch, Suspend("sleep"))
    /\ outcome' = Outcome("Ok", fetch.transactions, fetch.elapsed)
    /\ UNCHANGED <<transactions, file, phase, last_call, history, boot_at, file0, guard, q,
                   address>>

(***************************************************************************)
(* main.rs: the start of the process, ctrl-c and the exit.                 *)
(***************************************************************************)
\* main: load_from_file, then the server and the fetch task are spawned
MainStart ==
    /\ phase = "boot"
    /\ transactions' = LoadLines(transactions, file)
    /\ phase' = "running"
    /\ last_call' = Call("load_from_file", "", NoTransaction, <<>>)
    /\ fetch' = [fetch EXCEPT !.pc = "start"]
    /\ UNCHANGED <<file, history, boot_at, file0, guard, q, outcome, address>>

\* ctrl-c: fetch_task.abort() ends a waiting task now and a running one when it next
\* waits; the server stops taking requests
CtrlC ==
    /\ phase = "running"
    /\ phase' = "stopping"
    /\ fetch' = At(fetch, IF fetch.pc \in {"start", "sleep", "add_wait"}
                          THEN "aborted" ELSE fetch.pc)
    /\ UNCHANGED <<transactions, file, last_call, history, boot_at, file0, guard, q, outcome,
                   address>>

\* std::process::exit(0), five seconds after ctrl-c
Exit ==
    /\ phase = "stopping"
    /\ phase' = "stopped"
    /\ guard' = "free"
    /\ q' = [h \in Handlers |-> IdleHandler]
    /\ fetch' = IdleFetch
    /\ outcome' = NoOutcome
    /\ last_call' = NoCall
    /\ UNCHANGED <<transactions, file, history, boot_at, file0, address>>

\* the request of Spec: all records of the aggregated account
SpecParams == {TransactionQueryParams("A", NoDay, None, None)}

\* the backing file main finds: a record of another account and a corrupt line
SpecFiles == {<<to_string(TxB1), NotJson>>}
SpecHandlers == {"q1"}

Init ==
    /\ TasksIdle
    /\ address \in Addresses
    /\ transactions = EmptyMap
    /\ file \in SpecFiles
    /\ file0 = file
    /\ phase = "boot"
    /\ last_call = NoCall
    /\ history = <<>>
    /\ boot_at = 0

Next ==
    \/ MainStart
    \/ FetchBegin
    \/ GetEpochStartTime
    \/ FetchSignatures
    \/ \E resp \in TxResponses, d \in RpcSeconds : ProcessSignature(resp, d)
    \/ ParseSignatureFails
    \/ AddWaitTick
    \/ AddLockGranted
    \/ Timeout
    \/ \E io_ok \in BOOLEAN : AddTransactionBody(io_ok)
    \/ FetchDone
    \/ \E h \in SpecHandlers, params \in SpecParams : Receive(h, params)
    \/ \E h \in SpecHandlers : QueryLock(h)
    \/ \E h \in SpecHandlers : QuerySnapshot(h)
    \/ \E h \in SpecHandlers : QueryRespond(h)
    \/ \E h \in SpecHandlers : QueryFinish(h)
    \/ CtrlC
    \/ Exit

Spec == Init /\ [][Next]_vars

(***************************************************************************)
(* Claims about one fetch cycle, checked under Spec.                       *)
(***************************************************************************)
Newest(t) == IF t = <<>> THEN NoTransaction ELSE t[Len(t)]
IsSuffix(t, u) == Len(t) <= Len(u) /\ SubSeq(u, Len(u) - Len(t) + 1, Len(u)) = t
Eligible(resp) ==
    resp.ok /\ resp.block_time.some /\ resp.block_time.v >= fetch.epoch_start_time
Normalizable(resp) ==
    /\ resp.meta.some
    /\ resp.encoding = "json"
    /\ Len(resp.meta.v.pre_balances) >= 2
    /\ Len(resp.meta.v.post_balances) >= 2

\* what one turn of the loop does to the vector with the answer resp of get_transaction
C8_Turn(resp) ==
    IF ~Eligible(resp)
    THEN fetch'.transactions = fetch.transactions /\ fetch'.pc = "loop"
    ELSE IF ~Normalizable(resp)
    THEN /\ fetch'.transactions = fetch.transactions
         /\ fetch'.pc = (IF ~resp.meta.some \/ resp.encoding # "json"
                         THEN "loop" ELSE "panicked")
    ELSE \/ /\ fetch'.pc = "panicked"
            /\ fetch'.transactions = fetch.transactions
            /\ resp.meta.v.post_balances[2] < resp.meta.v.pre_balances[2]
         \/ /\ fetch'.pc \in {"add_locked", "add_wait", "aborted"}
            /\ fetch'.pc # "aborted" => fetch'.pending = Newest(fetch'.transactions)
            /\ fetch'.transactions =
                  Append(fetch.transactions, Newest(fetch'.transactions))
            /\ Newest(fetch'.transactions).signature = Head(fetch.signatures)
            /\ Newest(fetch'.transactions).timestamp = AsU64(resp.block_time.v)

\* C8 (as amended): in a cycle with threshold T a transaction with block_time < T is
\* neither stored nor put in the result; one with block_time >= T, T included, is put
\* in the result and handed to add_transaction under the queried address when it has
\* meta, the Json encoding, two balances on each side and its amount does not panic,
\* and otherwise it is skipped or the task panics; the caller gets the result only
\* from a call that returns Ok, and it is then what the cycle appended under the
\* address; every record a cycle inserts has timestamp >= T.
C8_EpochBoundary ==
    /\ [][(fetch' # fetch /\ fetch.pc = "loop" /\ fetch.signatures # <<>>) =>
             /\ UNCHANGED <<transactions, file>>
             /\ \A resp \in TxResponses :
                   C8_Turn(resp) \/ ~(\E d \in RpcSeconds : ProcessSignature(resp, d))]_vars
    /\ [][\A io_ok \in BOOLEAN :
             AddTransactionBody(io_ok) =>
                /\ fetch.pending = Newest(fetch.transactions)
                /\ fetch.pending.timestamp >= fetch.epoch_start_time
                /\ get_transactions(transactions', address) =
                      Append(get_transactions(transactions, address), fetch.pending)]_vars
    /\ [](\A i \in 1..Len(fetch.transactions) :
             fetch.transactions[i].timestamp >= fetch.epoch_start_time)
    /\ [](outcome.kind = "Ok" =>
             /\ outcome.returned = fetch.transactions
             /\ IsSuffix(outcome.returned, get_transactions(transactions, address)))
    /\ [](outcome.kind # "Ok" => outcome.returned = <<>>)

\* a call returned Ok with a record whose block time is exactly T, which is stored
C8_Witness ==
    /\ outcome.kind = "Ok"
    /\ Len(outcome.returned) = 2
    /\ outcome.returned[1].timestamp = fetch.epoch_start_time
    /\ outcome.returned[2].timestamp > fetch.epoch_start_time
    /\ IsSuffix(outcome.returned, get_transactions(transactions, address))

\* C8 as the spec states it: every fetched transaction with block_time >= T is put in
\* the result and inserted, every one with block_time < T is not.
C8_EveryEligibleStoredAndReturned ==
    [][\A resp \in TxResponses, d \in RpcSeconds :
          (resp.ok /\ resp.block_time.some /\ ProcessSignature(resp, d)) =>
             IF resp.block_time.v >= fetch.epoch_start_time
             THEN /\ fetch'.transactions =
                        Append(fetch.transactions, Newest(fetch'.transactions))
                  /\ fetch'.pc \in {"add_locked", "add_wait", "aborted"}
             ELSE fetch'.transactions = fetch.transactions]_vars

\* C9: once the time spent inside timeout() is past the deadline the call does not
\* process another identifier and does not return Ok.
C9_DeadlineEnforced ==
    /\ outcome.kind = "Ok" => outcome.took <= timeout_duration
    /\ (fetch.pc = "loop" /\ fetch.signatures # <<>>) => fetch.elapsed <= timeout_duration

\* C10: a call that fails with Elapsed hands the caller nothing of its vector; the
\* step that fails it leaves the map and the file as they are; no step removes a
\* stored record, so what the cycle inserted before is in every later snapshot of
\* the address.
C10_TimeoutKeepsInserted ==
    /\ [](outcome.kind = "Elapsed" => outcome.returned = <<>>)
    /\ [][Timeout => UNCHANGED <<transactions, file>>]_vars
    /\ [](phase \in {"running", "stopping"} =>
             IsSuffix(InsertedThisRun(address), get_transactions(transactions, address)))
    /\ [][\A h \in Handlers :
             QuerySnapshot(h) =>
                q'[h].snapshot = get_transactions(transactions, q[h].params.pub_key)]_vars

\* the call timed out on its second record; the first, inserted before, is in the
\* reply to a request served after the timeout
C10_Witness ==
    /\ outcome.kind = "Elapsed"
    /\ Len(fetch.transactions) = 2
    /\ Len(InsertedThisRun(address)) = 1
    /\ InsertedThisRun(address)[1] = fetch.transactions[1]
    /\ q["q1"].pc = "done"
    /\ q["q1"].reply.status = 200
    /\ q["q1"].reply.body = <<fetch.transactions[1]>>

(***************************************************************************)
(* Claims about the errors of a fetch cycle, checked under Spec.           *)
(***************************************************************************)
\* the store as main loaded it
Loaded == LoadLines(EmptyMap, file0)

\* C11: a call with a malformed address ends with InvalidPublicKey, has made no
\* remote call, and leaves the store as it was.
C11_MalformedAddressRejectedFirst ==
    (~IsPubkey(address) /\ outcome.kind # "none") =>
        /\ outcome.kind = "InvalidPublicKey"
        /\ fetch.calls = {}
        /\ transactions = Loaded
        /\ file = file0

\* C12: when get_epoch_info or get_block_time fails the call fails with a kind of
\* its own, which is neither the kind for fetching transaction details nor the kind
\* for fetching signatures; the signature list is not fetched, nothing is inserted.
C12_EpochFailureHasOwnKind ==
    [][(fetch.pc = "epoch" /\ outcome' # outcome) =>
          /\ outcome'.kind \notin {"FetchTransactionError", "FetchSignaturesError"}
          /\ outcome'.returned = <<>>
          /\ "get_signatures_for_address" \notin fetch'.calls
          /\ UNCHANGED <<transactions, file>>]_vars

\* C13: an identifier that does not parse fails the whole call with
\* ParseSignatureError there: the caller gets that error and none of the records
\* accepted so far, and until the next cycle begins no remote call is made and
\* nothing is stored; the identifier is never skipped.
C13_ParseFailureFailsTheCall ==
    /\ [][(/\ fetch.pc = "loop"
           /\ fetch.signatures # <<>>
           /\ Head(fetch.signatures) \notin SignatureStrings
           /\ fetch' # fetch
           /\ phase' # "stopped") =>
             /\ outcome'.kind = "ParseSignatureError"
             /\ outcome'.returned = <<>>
             /\ fetch'.pc \in {"sleep", "aborted"}
             /\ fetch'.calls = fetch.calls
             /\ UNCHANGED <<transactions, file>>]_vars
    /\ [][(outcome.kind = "ParseSignatureError" /\ outcome' = outcome) =>
             /\ fetch'.calls = fetch.calls
             /\ UNCHANGED <<transactions, file>>]_vars
    /\ [](outcome.kind = "ParseSignatureError" =>
             /\ outcome.returned = <<>>
             /\ fetch.pc \in {"sleep", "aborted"})

\* the call failed on its second identifier; the record of the first is stored and
\* the caller has none
C13_Witness ==
    /\ outcome.kind = "ParseSignatureError"
    /\ outcome.returned = <<>>
    /\ Len(fetch.transactions) = 1
    /\ fetch.transactions[1].signature = "s1"
    /\ IsSuffix(fetch.transactions, get_transactions(transactions, address))

(***************************************************************************)
(* SpecOutage: the whole program against a remote ledger whose             *)
(* get_transaction either fails or answers a transfer of the current       *)
(* epoch, so that an identifier without a record is one whose fetch failed.*)
(***************************************************************************)
OutageResponses == {RpcError, Transfer(Some(3))}

NextOutage ==
    \/ MainStart
    \/ FetchBegin
    \/ GetEpochStartTime
    \/ FetchSignatures
    \/ \E resp \in OutageResponses, d \in RpcSeconds : ProcessSignature(resp, d)
    \/ ParseSignatureFails
    \/ AddWaitTick
    \/ AddLockGranted
    \/ Timeout
    \/ \E io_ok \in BOOLEAN : AddTransactionBody(io_ok)
    \/ FetchDone
    \/ \E h \in SpecHandlers, params \in SpecParams : Receive(h, params)
    \/ \E h \in SpecHandlers : QueryLock(h)
    \/ \E h \in SpecHandlers : QuerySnapshot(h)
    \/ \E h \in SpecHandlers : QueryRespond(h)
    \/ \E h \in SpecHandlers : QueryFinish(h)
    \/ CtrlC
    \/ Exit

SpecOutage == Init /\ [][NextOutage]_vars

\* C14: a get_transaction that fails adds no record, ends nothing and reports
\* nothing: the loop goes on with the next identifier, the store and the outcome are
\* as before; FetchTransactionError is never the outcome of a call that has fetched
\* a transaction.
C14_DetailFailureTolerated ==
    /\ [][(fetch' # fetch /\ fetch.pc = "loop" /\ fetch.signatures # <<>>) =>
             \A d \in RpcSeconds :
                ProcessSignature(RpcError, d) =>
                   /\ fetch'.pc = "loop"
                   /\ fetch'.signatures = Tail(fetch.signatures)
                   /\ fetch'.transactions = fetch.transactions
                   /\ outcome' = outcome
                   /\ UNCHANGED <<transactions, file>>]_vars
    /\ [](outcome.kind = "FetchTransactionError" => "get_transaction" \notin fetch.calls)
    /\ []("get_transaction" \in fetch.calls =>
             outcome.kind \in {"none", "Ok", "ParseSignatureError", "Elapsed"})

\* the fetch of the first identifier failed, the second was stored and returned, and
\* the call returned Ok
C14_Witness ==
    /\ outcome.kind = "Ok"
    /\ Len(outcome.returned) = 1
    /\ outcome.returned[1].signature = "s2"
    /\ IsSuffix(outcome.returned, get_transactions(transactions, address))

(***************************************************************************)
(* SpecServe: the fetch task and two request handlers side by side, the    *)
(* remote ledger answering every get_transaction with a transfer of the    *)
(* current epoch; a request asks for all records of the account or names a *)
(* day that does not parse.                                                *)
(***************************************************************************)
ServeResponses == {Transfer(Some(3))}
ServeParams ==
    {TransactionQueryParams("A", NoDay, None, None),
     TransactionQueryParams("A", DayText(FALSE, 0), None, None)}

NextServe ==
    \/ MainStart
    \/ FetchBegin
    \/ GetEpochStartTime
    \/ FetchSignatures
    \/ \E resp \in ServeResponses, d \in RpcSeconds : ProcessSignature(resp, d)
    \/ ParseSignatureFails
    \/ AddWaitTick
    \/ AddLockGranted
    \/ Timeout
    \/ \E io_ok \in BOOLEAN : AddTransactionBody(io_ok)
    \/ FetchDone
    \/ \E h \in Handlers, params \in ServeParams : Receive(h, params)
    \/ \E h \in Handlers : QueryLock(h)
    \/ \E h \in Handlers : QuerySnapshot(h)
    \/ \E h \in Handlers : QueryRespond(h)
    \/ \E h \in Handlers : QueryFinish(h)
    \/ CtrlC
    \/ Exit

SpecServe == Init /\ [][NextServe]_vars

IsPrefix(t, u) == Len(t) <= Len(u) /\ SubSeq(u, 1, Len(t)) = t
MalformedDay(params) == params.day.some /\ ~parse_date(params.day.v).ok

\* C15: every reply of the handler is 200 or 400, 400 exactly for a day that does not
\* parse, whatever the fetch task is doing; the body of a 200 is read from the store
\* (the first records of a snapshot that is a prefix of the stored sequence); a step
\* of a handler makes no remote call and changes neither the fetch task, its outcome,
\* the map nor the file.
C15_StoreBackedOnly ==
    /\ [](\A h \in Handlers :
            q[h].pc = "done" =>
               /\ q[h].reply.status \in {200, 400}
               /\ (q[h].reply.status = 400) <=> MalformedDay(q[h].params)
               /\ q[h].reply.status = 200 =>
                     /\ q[h].reply.body = take(q[h].snapshot, DefaultLimit)
                     /\ IsPrefix(q[h].snapshot,
                                 get_transactions(transactions, q[h].params.pub_key)))
    /\ [][(q' # q /\ phase' # "stopped") =>
             /\ fetch' = fetch
             /\ outcome' = outcome
             /\ UNCHANGED <<transactions, file>>]_vars

\* a 400 is sent for a malformed day after the fetch cycle timed out, the other
\* handler having answered 200 with the record that cycle had stored
C15_Witness ==
    /\ outcome.kind = "Elapsed"
    /\ q["q1"].pc = "done"
    /\ q["q1"].reply.status = 400
    /\ q["q2"].pc = "done"
    /\ q["q2"].reply.status = 200
    /\ q["q2"].reply.body # <<>>

(***************************************************************************)
(* SpecSchedule: SpecOutage with the fetch task scheduled fairly: the      *)
(* ten-second sleep of its loop ends and the runtime polls the task.       *)
(***************************************************************************)
SpecSchedule == Init /\ [][NextOutage]_vars /\ WF_vars(FetchBegin)

CycleOutcomes ==
    {"Ok", "InvalidPublicKey", "FetchTransactionError", "FetchSignaturesError",
     "ParseSignatureError", "Elapsed"}

\* C16: whatever the outcome of a cycle, the task sleeps and then begins the next
\* cycle, unless ctrl-c ends the process first; a cycle has one outcome, and once it
\* is known the cycle makes no further remote call and no insert (nothing is retried
\* inside the cycle).
C16_NextCycleStarts ==
    /\ \A k \in CycleOutcomes :
          (outcome.kind = k /\ fetch.pc = "sleep") ~>
             ((fetch.pc = "epoch" /\ outcome.kind = "none") \/ phase # "running")
    /\ [](outcome.kind # "none" =>
             /\ outcome.kind \in CycleOutcomes
             /\ fetch.pc \in {"sleep", "aborted"})
    /\ []((fetch.pc = "sleep" /\ phase = "running") => ENABLED FetchBegin)
    /\ [][(outcome.kind # "none" /\ outcome' = outcome) =>
             /\ fetch'.calls = fetch.calls
             /\ UNCHANGED <<transactions, file>>]_vars
    /\ [][(outcome.kind # "none" /\ outcome' # outcome) => outcome' = NoOutcome]_vars

\* a cycle has begun after a cycle that inserted records has ended
C16_Witness ==
    /\ phase = "running"
    /\ fetch.pc = "epoch"
    /\ fetch.transactions = <<>>
    /\ history # <<>>

(***************************************************************************)
(* Claims about the guard of the store, checked under SpecServe.           *)
(***************************************************************************)
\* the sequence stored under k after the load and the first n inserts of this run
StoredAfter(n, k) ==
    LET new == SelectSeq(SubSeq(history, 1, n), LAMBDA a : a.pub_key = k)
    IN  get_transactions(Loaded, k) \o [i \in 1..Len(new) |-> new[i].transaction]
InCriticalSection == {h \in Handlers : q[h].pc = "locked"}
Holders ==
    Cardinality(InCriticalSection) + (IF fetch.pc = "add_locked" THEN 1 ELSE 0)

\* C17: at most one task is between lock() and the drop of the guard, and it is the
\* one the guard names; the load runs before any task exists; the snapshot a handler
\* holds is the sequence stored under its key after the load and some whole number of
\* inserts.
C17_OneHolder ==
    /\ Holders <= 1
    /\ (guard = "fetch") <=> (fetch.pc = "add_locked")
    /\ \A h \in Handlers : (guard = h) <=> (q[h].pc = "locked")
    /\ (guard = "free") <=> (Holders = 0)
    /\ phase = "boot" => (Holders = 0 /\ \A h \in Handlers : q[h].pc = "idle")
    /\ \A h \in Handlers :
          q[h].pc \in {"filter", "done"} =>
             \E n \in 0..Len(history) :
                q[h].snapshot = StoredAfter(n, q[h].params.pub_key)
    /\ phase # "boot" =>
          \A k \in Accounts :
             get_transactions(transactions, k) = StoredAfter(Len(history), k)

\* one handler waits for the guard while the other holds it, the fetch task waits for
\* it with a record to insert, and one insert of this run is already stored
C17_Witness ==
    /\ q["q1"].pc = "locked"
    /\ q["q2"].pc = "lock"
    /\ fetch.pc = "add_wait"
    /\ Len(history) = 1
    /\ get_transactions(transactions, "A") = StoredAfter(1, "A")

(***************************************************************************)
(* SpecContend: the fetch task and two handlers that ask for all records   *)
(* of the account, under the scheduling of tokio: a task that can run is   *)
(* polled, so the holder of the guard reaches its drop, and the mutex      *)
(* serves its waiters in the order of their arrival, so a handler that     *)
(* waits while the guard is freed again and again is granted it.  The      *)
(* remote calls of the loop answer at once; time passes while the fetch    *)
(* task waits for the guard.                                               *)
(***************************************************************************)
NextContend ==
    \/ MainStart
    \/ FetchBegin
    \/ GetEpochStartTime
    \/ FetchSignatures
    \/ \E resp \in ServeResponses : ProcessSignature(resp, 0)
    \/ ParseSignatureFails
    \/ AddWaitTick
    \/ AddLockGranted
    \/ Timeout
    \/ \E io_ok \in BOOLEAN : AddTransactionBody(io_ok)
    \/ FetchDone
    \/ \E h \in Handlers, params \in SpecParams : Receive(h, params)
    \/ \E h \in Handlers : QueryLock(h)
    \/ \E h \in Handlers : QuerySnapshot(h)
    \/ \E h \in Handlers : QueryRespond(h)
    \/ \E h \in Handlers : QueryFinish(h)
    \/ CtrlC
    \/ Exit

SpecContend ==
    /\ Init
    /\ [][NextContend]_vars
    /\ \A h \in Handlers : SF_vars(QueryLock(h)) /\ WF_vars(QuerySnapshot(h))
    /\ WF_vars(\E io_ok \in BOOLEAN : AddTransactionBody(io_ok))

\* C18: a handler that waits for the guard gets it and returns with its snapshot,
\* unless the process exits first; a handler past its snapshot does not hold the
\* guard; the fetch task holds the guard only inside add_transaction, where its next
\* step drops the guard and makes no remote call, and never while it sleeps.
C18_QueryReturns ==
    /\ \A h \in Handlers :
          (q[h].pc = "lock") ~> (q[h].pc = "filter" \/ phase = "stopped")
    /\ \A h \in Handlers :
          (q[h].pc = "locked") ~> (q[h].pc = "filter" \/ phase = "stopped")
    /\ [](\A h \in Handlers : q[h].pc \in {"idle", "lock", "filter", "done"} => guard # h)
    /\ [](guard = "fetch" => fetch.pc = "add_locked")
    /\ [][(guard = "fetch" /\ fetch' # fetch /\ phase' # "stopped") =>
             /\ guard' = "free"
             /\ fetch'.calls = fetch.calls
             /\ fetch'.elapsed \in {fetch.elapsed, 0}]_vars
    /\ [][(\E h \in Handlers : guard = h) =>
             (guard' \in {guard, "free"} /\ UNCHANGED <<transactions, file>>)]_vars

\* a handler returned with its snapshot after waiting for the guard while the fetch
\* task was inserting: the snapshot holds the record of that insert
C18_Witness ==
    /\ q["q1"].pc = "filter"
    /\ q["q1"].snapshot # <<>>
    /\ q["q2"].pc = "locked"
    /\ fetch.pc = "add_wait"

(***************************************************************************)
(* Claims about the order and the permanence of the stored records,        *)
(* checked under Spec.                                                     *)
(***************************************************************************)
\* the place of an identifier in the list the remote source returned
SigIndex(signature) == CHOOSE i \in 1..Len(SigAt) : SigAt[i] = signature
InListOrder(t) ==
    \A i, j \in 1..Len(t) : i < j => SigIndex(t[i].signature) < SigIndex(t[j].signature)
Front(t) == SubSeq(t, 1, Len(t) - 1)
\* the records of the vector that add_transaction has been called and has returned for
InsertedOf(f) ==
    IF f.pc \in {"add_wait", "add_locked"} THEN Front(f.transactions) ELSE f.transactions
InCycle == fetch.pc \in {"loop", "add_wait", "add_locked"}

\* C19: the vector of a cycle grows by one record at its end, the record of the
\* identifier at the head of the list, so its records are in the order of the list;
\* every insert appends the newest record of the vector to the sequence of the
\* address, so during the cycle the records inserted so far are the end of that
\* sequence in the same order; Ok returns the whole vector, which is then exactly the
\* end of the stored sequence.
C19_InsertedInListOrder ==
    /\ [](InListOrder(fetch.transactions) /\ InListOrder(outcome.returned))
    /\ [][(fetch'.transactions # fetch.transactions /\ fetch'.transactions # <<>>) =>
             /\ Front(fetch'.transactions) = fetch.transactions
             /\ Newest(fetch'.transactions).signature = Head(fetch.signatures)
             /\ fetch'.pc \in {"add_wait", "add_locked", "aborted"}
             /\ fetch'.pc # "aborted" => fetch'.pending = Newest(fetch'.transactions)]_vars
    /\ [][(transactions' # transactions /\ phase # "boot") =>
             /\ transactions' = Push(transactions, address, Newest(fetch.transactions))
             /\ get_transactions(transactions', address) =
                   Append(get_transactions(transactions, address),
                          Newest(fetch.transactions))
             /\ fetch.pending = Newest(fetch.transactions)
             /\ fetch'.transactions = fetch.transactions]_vars
    /\ [](InCycle => IsSuffix(InsertedOf(fetch), get_transactions(transactions, address)))
    /\ [](outcome.kind = "Ok" =>
             /\ outcome.returned = fetch.transactions
             /\ IsSuffix(outcome.returned, get_transactions(transactions, address)))

\* a cycle returned Ok with the records of s1 and s2, which are the last two records
\* stored under the address, in that order
C19_Witness ==
    /\ outcome.kind = "Ok"
    /\ Len(outcome.returned) = 2
    /\ outcome.returned[1].signature = "s1"
    /\ outcome.returned[2].signature = "s2"
    /\ IsSuffix(outcome.returned, get_transactions(transactions, address))

\* C20: in every step, whichever task takes it, each key of the map stays a key and
\* the sequence stored under it before the step is a prefix of the sequence stored
\* under it after the step; it follows that the sequence of any earlier state is a
\* prefix of that of any later state.
C20_InsertOnly ==
    [][\A k \in DOMAIN transactions :
          /\ k \in DOMAIN transactions'
          /\ IsPrefix(transactions[k], transactions'[k])]_vars

\* the task died on a failed write of its second insert and was then aborted by
\* ctrl-c, a query was answered since, and both records are at the end of the
\* sequence of the address
C20_Witness ==
    /\ phase = "stopping"
    /\ fetch.pc = "panicked"
    /\ Len(history) = 2
    /\ ~history[2].persisted
    /\ q["q1"].pc = "done"
    /\ IsSuffix(<<history[1].transaction, history[2].transaction>>,
                get_transactions(transactions, address))

(***************************************************************************)
(* Claims about failures of the insert and about the records the pipeline  *)
(* creates.                                                                *)
(***************************************************************************)
\* the write of the last insert failed: expect() panicked inside add_transaction
WriteFailed == history # <<>> /\ ~LastAdd.persisted

\* C21: once the write of an insert has failed the process is over: no fetch cycle
\* begins, no request is taken and no reply is made.
C21_WriteFailureEndsProcess ==
    [][WriteFailed =>
          /\ fetch'.pc # "epoch"
          /\ q' = q \/ phase' = "stopped"]_vars

Count(x, t) == Cardinality({i \in 1..Len(t) : t[i] = x})
PersistedThisRun ==
    LET done == SelectSeq(history, LAMBDA a : a.persisted)
    IN  [i \in 1..Len(done) |-> to_string(done[i].transaction)]
InsertedRecords == {history[i].transaction : i \in 1..Len(history)}

\* C22: an insert is never refused or merged because its signature is already stored:
\* the sequence of the address holds each record as many times as it was loaded and
\* inserted, the file holds its line as many times as it was there at startup and
\* written since, and a load of the file as it stands keeps one record for each line
\* that deserializes, duplicates included.
C22_DuplicatesKept ==
    /\ phase # "boot" =>
          \A r \in InsertedRecords :
             Count(r, get_transactions(transactions, address)) =
                Count(r, get_transactions(Loaded, address))
                   + Count(r, InsertedThisRun(address))
    /\ \A r \in InsertedRecords :
          Count(to_string(r), file) = Count(to_string(r), file0)
                                         + Count(to_string(r), PersistedThisRun)
    /\ TotalRecords(LoadLines(EmptyMap, file)) = Len(ValidRecords(file))

\* the second of two cycles that were given the same identifier and the same details
\* returned Ok: the record is stored twice under the address and written twice
C22_Witness ==
    /\ outcome.kind = "Ok"
    /\ Len(outcome.returned) = 1
    /\ Len(history) = 2
    /\ history[1] = history[2]
    /\ history[2].persisted
    /\ Count(outcome.returned[1], get_transactions(transactions, address)) = 2
    /\ Count(to_string(outcome.returned[1]), file) = 2
    /\ Count(outcome.returned[1],
             get_transactions(LoadLines(EmptyMap, file), outcome.returned[1].sender)) = 2

\* a transaction of the current epoch whose second balance went from 3 to 1
DecreasingTransfer ==
    Response(TRUE, Some(3), Meta(<<5, 3>>, <<4, 1>>), "json", "raw", <<"B">>)

\* C23: the turn of the loop for a transaction whose second balance decreased puts a
\* record in the vector whose amount is the difference wrapped modulo 2^64; it neither
\* rejects the transaction nor fails.
C23_DecreaseStoredWrapped ==
    [][(/\ fetch.pc = "loop"
        /\ fetch.signatures # <<>>
        /\ fetch' # fetch
        /\ \E d \in RpcSeconds : ProcessSignature(DecreasingTransfer, d)) =>
          /\ fetch'.transactions # fetch.transactions
          /\ Newest(fetch'.transactions).amount = AsU64(1 - 3)
          /\ fetch'.pc # "panicked"]_vars

AllPersisted(h) == \A i \in 1..Len(h) : h[i].persisted
LinesOf(h) == [i \in 1..Len(h) |-> to_string(h[i].transaction)]

\* C24: whenever the fetch task is not inside add_transaction, the file is the file
\* found at startup followed by one line for each insert whose write succeeded, in the
\* order of the inserts, and the map holds the loaded records followed by the inserted
\* ones; when no write has failed the lines are those of all inserts of this run.  The
\* file changes only in a step that pushes to the map, and a push whose write succeeds
\* appends the line of the pushed record in the same step, so a timeout or an abort
\* cannot separate the two.
C24_FileInStepWithMemory ==
    /\ []((guard # "fetch" /\ phase # "boot") =>
             /\ file = file0 \o PersistedThisRun
             /\ AllPersisted(history) => file = file0 \o LinesOf(history)
             /\ \A k \in Accounts :
                   get_transactions(transactions, k) = StoredAfter(Len(history), k))
    /\ [][file' # file =>
             /\ guard = "fetch"
             /\ transactions' # transactions
             /\ history' = Append(history, Newest(history'))
             /\ file' = Append(file, to_string(Newest(history').transaction))]_vars
    /\ [][(transactions' # transactions /\ phase # "boot" /\ AllPersisted(history')) =>
             /\ file' = Append(file, to_string(Newest(history').transaction))
             /\ get_transactions(transactions', address) =
                   Append(get_transactions(transactions, address),
                          Newest(history').transaction)]_vars

\* the cycle timed out waiting for the guard after one insert and the task was then
\* aborted by ctrl-c: the one record is in the map and its line is the last of the file
C24_Witness ==
    /\ outcome.kind = "Elapsed"
    /\ fetch.pc = "aborted"
    /\ Len(history) = 1
    /\ history[1].persisted
    /\ file = Append(file0, to_string(history[1].transaction))
    /\ Newest(get_transactions(transactions, address)) = history[1].transaction

(***************************************************************************)
(* SpecDropped: the whole program against a remote ledger that answers     *)
(* get_transaction with a transfer of the current epoch, or with a         *)
(* transaction of the current epoch that lacks its block time, lacks its   *)
(* meta, or is not in the Json encoding.                                   *)
(***************************************************************************)
DroppedResponses ==
    {Transfer(None),
     Response(TRUE, Some(3), NoMeta, "json", "parsed", <<"A", "B">>),
     Response(TRUE, Some(3), Meta(<<5, 1>>, <<4, 3>>), "binary", "parsed", <<"A", "B">>)}

NextDropped ==
    \/ MainStart
    \/ FetchBegin
    \/ GetEpochStartTime
    \/ FetchSignatures
    \/ \E resp \in DroppedResponses \cup {Transfer(Some(3))}, d \in RpcSeconds :
          ProcessSignature(resp, d)
    \/ ParseSignatureFails
    \/ AddWaitTick
    \/ AddLockGranted
    \/ Timeout
    \/ \E io_ok \in BOOLEAN : AddTransactionBody(io_ok)
    \/ FetchDone
    \/ \E h \in SpecHandlers, params \in SpecParams : Receive(h, params)
    \/ \E h \in SpecHandlers : QueryLock(h)
    \/ \E h \in SpecHandlers : QuerySnapshot(h)
    \/ \E h \in SpecHandlers : QueryRespond(h)
    \/ \E h \in SpecHandlers : QueryFinish(h)
    \/ CtrlC
    \/ Exit

SpecDropped == Init /\ [][NextDropped]_vars

\* C25: the turn of the loop for a fetched transaction without block time, without
\* meta or in another encoding adds nothing to the vector, the map or the file, sets
\* no outcome and leaves the loop at the next identifier; no record of the vector, of
\* a result or of the inserts of this run has timestamp 0.
C25_IncompleteDroppedSilently ==
    /\ [][(fetch' # fetch /\ fetch.pc = "loop" /\ fetch.signatures # <<>>) =>
             \A resp \in DroppedResponses, d \in RpcSeconds :
                ProcessSignature(resp, d) =>
                   /\ fetch'.pc = "loop"
                   /\ fetch'.signatures = Tail(fetch.signatures)
                   /\ fetch'.transactions = fetch.transactions
                   /\ outcome' = outcome
                   /\ UNCHANGED <<transactions, file>>]_vars
    /\ [](/\ \A i \in 1..Len(fetch.transactions) : fetch.transactions[i].timestamp # 0
          /\ \A i \in 1..Len(outcome.returned) : outcome.returned[i].timestamp # 0
          /\ \A i \in 1..Len(history) : history[i].transaction.timestamp # 0)

\* the first identifier was answered without block time, without meta or in another
\* encoding; the cycle went on, stored the second and returned Ok with that one record
C25_Witness ==
    /\ outcome.kind = "Ok"
    /\ Len(outcome.returned) = 1
    /\ outcome.returned[1].signature = "s2"
    /\ outcome.returned[1].timestamp = 3
    /\ Newest(get_transactions(transactions, address)) = outcome.returned[1]
    /\ Len(history) = 1

=============================================================================
